---- MODULE Spec2Model ----
(***************************************************************************)
(* Model of src/api/objects/ObjectAPI.js: the provider registry, the       *)
(* get/save/delete dispatcher and the root composition registry.           *)
(*                                                                         *)
(* JavaScript values are records tagged with their typeof.  A property     *)
(* that an object does not have reads as Undefined, so every object below  *)
(* carries all the properties the code reads (namespace, identifier) and   *)
(* the one the Identifier typedef documents (key).                         *)
(***************************************************************************)
EXTENDS Naturals, Sequences, FiniteSets

\* ---------------------------------------------------------------- bounds
\* longest root registry the model builds
MaxRoots == 2
\* number of array objects the heap can hold at once
MaxArrays == 2
\* number of unsettled promises a caller keeps
MaxPending == 2

\* ------------------------------------------------------ JavaScript values
Undefined == [typeof |-> "undefined"]
Str(s) == [typeof |-> "string", value |-> s]
Obj(ns, k, id) == [typeof |-> "object", namespace |-> ns, key |-> k, identifier |-> id]

\* a === b for the primitives the code compares (strings, undefined); an
\* object is never === to a primitive
StrictEquals(a, b) == a.typeof # "object" /\ b.typeof # "object" /\ a = b

\* ToBoolean
Truthy(v) == v.typeof = "object" \/ (v.typeof = "string" /\ v.value # "")

\* ToPropertyKey: the name under which providers[v] is looked up
PropertyKey(v) ==
    IF v.typeof = "string" THEN v.value
    ELSE IF v.typeof = "undefined" THEN "undefined"
    ELSE "[object Object]"

\* ------------------------------------------------------------ input sets
Methods == {"save", "delete", "get"}

\* namespaces are ordinary strings: none is the name of a property that
\* every object inherits (such as "constructor")
Namespaces == {"n", "other"}

\* Identifier typedef: { namespace, key }
Identifier(ns, k) == Obj(Str(ns), Str(k), Undefined)

\* objects whose identifier property is the string 'ROOT'
RootKeys == {Obj(ns, Undefined, Str("ROOT")) : ns \in {Undefined, Str("n")}}

\* DomainObject typedef: { identifier: Identifier, ... }
DomainObject(id) == Obj(Undefined, Undefined, id)
DomainObjects == {DomainObject(Identifier(ns, "a")) : ns \in Namespaces}

\* ObjectProvider interface: an object, every method optional
Provider(name, methods) == [typeof |-> "object", name |-> name, methods |-> methods]
Providers ==
    { Provider("P0", {}),
      Provider("P1", {"get"}),
      Provider("P2", {"save"}),
      Provider("P3", {"delete"}),
      Provider("P4", {"get", "save"}),
      Provider("P5", {"get", "delete"}),
      Provider("P6", {"save", "delete"}),
      Provider("P7", {"get", "save", "delete"}) }

\* first arguments of get/save/delete, and the argument lists built on them
DispatchKeys == {Identifier(ns, "a") : ns \in Namespaces} \cup RootKeys \cup DomainObjects
DispatchArgs ==
    {<<k>> : k \in DispatchKeys} \cup {<<Identifier(ns, "a"), Str("extra")>> : ns \in Namespaces}

\* identifiers addRoot and removeRoot are called with
RootIdentifiers == {Identifier("n", "a"), Identifier("n", "b"), Identifier("other", "a")}

\* the property names of this.providers the model reads or assigns;
\* "undefined" is the name a lookup with a missing namespace reads
PropertyNames == Namespaces \cup {"undefined"}

Refs == 1..MaxArrays

\* ------------------------------------------------------------------ state
VARIABLES
    providers,          \* this.providers: Undefined under a name never assigned
    fallbackProvider,   \* this.fallbackProvider
    rootRegistry,       \* this.rootRegistry: a reference to an array
    arrays,             \* the heap of arrays, by reference
    held,               \* root objects that rootProvider.get has handed out
    result,             \* what the last call did: returned a value or threw
    invoked,            \* provider methods (for mutate and observe: Mutation
                        \* Engine operations) the last call invoked, in order
    overwrote,          \* what the last addProvider call found under the name
    addLog,             \* arguments of the addRoot calls so far, in call order
    removals,           \* whether removeRoot has been called
    live,               \* held root objects obtained since the last removeRoot
    pending             \* promises returned by providers that a caller keeps
                        \* and that are not settled yet, oldest first

vars == <<providers, fallbackProvider, rootRegistry, arrays, held, result,
          invoked, overwrote, addLog, removals, live, pending>>

\* the array this.rootRegistry refers to
Registry == arrays[rootRegistry]

HeldRefs == {o.composition : o \in held}

Min(S) == CHOOSE x \in S : \A y \in S : x <= y

\* this.rootProvider: only 'get'
\* a root provider that also implements save and delete
rootProviderWithSaveDelete == Provider("rootProvider", {"get", "save", "delete"})

rootProvider == Provider("rootProvider", {"get"})

Returned(op, args, v) == [op |-> op, args |-> args, outcome |-> "returned", value |-> v]
Threw(op, args, msg) == [op |-> op, args |-> args, outcome |-> "threw", value |-> msg]

Init ==
    /\ providers = [k \in PropertyNames |-> Undefined]
    /\ fallbackProvider = Undefined
    /\ rootRegistry = 1
    /\ arrays = [r \in Refs |-> <<>>]
    /\ held = {}
    /\ result = Returned("new", <<>>, Undefined)
    /\ invoked = <<>>
    /\ overwrote = Undefined
    /\ addLog = <<>>
    /\ removals = FALSE
    /\ live = {}
    /\ pending = <<>>

\* ------------------------------------------------------ provider registry
\* this.providers[name]: Undefined when the property is absent
Lookup(name) == IF name \in DOMAIN providers THEN providers[name] ELSE Undefined

\* getProvider with the fallback consulted before the namespace
getProviderFallbackFirst(key) ==
    IF StrictEquals(key.identifier, Str("ROOT"))
    THEN rootProvider
    ELSE IF Truthy(fallbackProvider)
         THEN fallbackProvider
         ELSE Lookup(PropertyKey(key.namespace))

\* getProvider with the namespace consulted before the ROOT check
getProviderNamespaceFirst(key) ==
    IF Truthy(Lookup(PropertyKey(key.namespace)))
    THEN Lookup(PropertyKey(key.namespace))
    ELSE IF StrictEquals(key.identifier, Str("ROOT"))
         THEN rootProvider
         ELSE fallbackProvider

\* getProvider without the "|| this.fallbackProvider"
getProviderNoFallback(key) ==
    IF StrictEquals(key.identifier, Str("ROOT"))
    THEN rootProvider
    ELSE Lookup(PropertyKey(key.namespace))

getProvider(key) ==
    IF StrictEquals(key.identifier, Str("ROOT"))
    THEN rootProvider
    ELSE IF Truthy(Lookup(PropertyKey(key.namespace)))
         THEN Lookup(PropertyKey(key.namespace))
         ELSE fallbackProvider

\* ObjectAPI.prototype._supersecretSetFallbackProvider
setFallbackProvider(p) ==
    /\ fallbackProvider' = p
    /\ result' = Returned("setFallbackProvider", <<p>>, Undefined)
    /\ invoked' = <<>>
    /\ overwrote' = Undefined
    /\ UNCHANGED <<providers, rootRegistry, arrays, held, addLog, removals, live>>

\* addProvider registering the provider for every namespace
addProviderEveryNamespace(namespace, provider) ==
    /\ providers' = [k \in PropertyNames |-> provider]
    /\ result' = Returned("addProvider", <<Str(namespace), provider>>, Undefined)
    /\ invoked' = <<>>
    /\ overwrote' = Lookup(namespace)
    /\ UNCHANGED <<fallbackProvider, rootRegistry, arrays, held, addLog, removals, live>>

addProvider(namespace, provider) ==
    /\ providers' = [providers EXCEPT ![namespace] = provider]
    /\ result' = Returned("addProvider", <<Str(namespace), provider>>, Undefined)
    /\ invoked' = <<>>
    /\ overwrote' = Lookup(namespace)
    /\ UNCHANGED <<fallbackProvider, rootRegistry, arrays, held, addLog, removals, live>>

\* ------------------------------------------------------------ dispatcher
\* new Error(message); the message is kept as the pieces it is concatenated from
Error(message) == [typeof |-> "object", message |-> message]
NoProviderMatched == Error(<<"No Provider Matched">>)
Unsupported(method) == Error(<<"Provider does not support [", method, "].">>)

\* a root object whose composition is the array the constructor created
RootObjectAtConstruction ==
    [typeof |-> "object", name |-> "The root object", type |-> "root", composition |-> 1]

\* the object rootProvider.get resolves with: composition is the array
\* this.rootRegistry refers to at the time of the call, not a copy of it
RootObject == [typeof |-> "object", name |-> "The root object", type |-> "root",
               composition |-> rootRegistry]

\* what provider[method].apply(provider, arguments) returns: Promise.resolve
\* of the root object for the root provider, and for any other provider a
\* promise that only that provider settles
ProviderReturn(provider, method, args) ==
    IF provider = rootProvider
    THEN [typeof |-> "object", promise |-> "resolved", value |-> RootObject]
    ELSE [typeof |-> "object", promise |-> "pending", by |-> provider.name,
          method |-> method, args |-> args]

Invocation(provider, method, args) ==
    [this |-> provider.name, method |-> method, args |-> args]

\* the dispatcher with both errors wrapped in a rejected promise
DispatchRejects(method, args) ==
    LET key == args[1]
        provider == getProvider(key)
        rejected(msg) == [typeof |-> "object", promise |-> "rejected", value |-> msg]
    IN  /\ IF ~Truthy(provider)
           THEN /\ result' = Returned(method, args, rejected(NoProviderMatched))
                /\ invoked' = <<>>
                /\ UNCHANGED <<held, live>>
           ELSE IF method \notin provider.methods
           THEN /\ result' = Returned(method, args, rejected(Unsupported(method)))
                /\ invoked' = <<>>
                /\ UNCHANGED <<held, live>>
           ELSE /\ result' = Returned(method, args, ProviderReturn(provider, method, args))
                /\ invoked' = <<Invocation(provider, method, args)>>
                /\ held' = IF provider = rootProvider THEN held \cup {RootObject} ELSE held
                /\ live' = IF provider = rootProvider THEN live \cup {RootObject} ELSE live
        /\ overwrote' = Undefined
        /\ UNCHANGED <<providers, fallbackProvider, rootRegistry, arrays, addLog, removals>>

\* the dispatcher testing provider.get where it should test provider[method]:
\* a missing method is then called, which is a TypeError, and a provider
\* without get is refused whatever the method
DispatchChecksGet(method, args) ==
    LET key == args[1]
        provider == getProvider(key)
    IN  /\ IF ~Truthy(provider)
           THEN /\ result' = Threw(method, args, NoProviderMatched)
                /\ invoked' = <<>>
                /\ UNCHANGED <<held, live>>
           ELSE IF "get" \notin provider.methods
           THEN /\ result' = Threw(method, args, Unsupported(method))
                /\ invoked' = <<>>
                /\ UNCHANGED <<held, live>>
           ELSE IF method \notin provider.methods
           THEN /\ result' = Threw(method, args, Error(<<"TypeError">>))
                /\ invoked' = <<>>
                /\ UNCHANGED <<held, live>>
           ELSE /\ result' = Returned(method, args, ProviderReturn(provider, method, args))
                /\ invoked' = <<Invocation(provider, method, args)>>
                /\ held' = IF provider = rootProvider THEN held \cup {RootObject} ELSE held
                /\ live' = IF provider = rootProvider THEN live \cup {RootObject} ELSE live
        /\ overwrote' = Undefined
        /\ UNCHANGED <<providers, fallbackProvider, rootRegistry, arrays, addLog, removals>>

\* ObjectAPI.prototype[method] for method in save, delete, get
\* the dispatcher routing to the provider of the oldest promise a caller
\* still keeps, when there is one
DispatchFollowsPending(method, args) ==
    LET key == args[1]
        provider == IF pending # <<>>
                    THEN CHOOSE p \in Providers : p.name = pending[1].by
                    ELSE getProvider(key)
    IN  /\ IF ~Truthy(provider)
           THEN /\ result' = Threw(method, args, NoProviderMatched)
                /\ invoked' = <<>>
                /\ UNCHANGED <<held, live>>
           ELSE IF method \notin provider.methods
           THEN /\ result' = Threw(method, args, Unsupported(method))
                /\ invoked' = <<>>
                /\ UNCHANGED <<held, live>>
           ELSE /\ result' = Returned(method, args, ProviderReturn(provider, method, args))
                /\ invoked' = <<Invocation(provider, method, args)>>
                /\ held' = IF provider = rootProvider THEN held \cup {RootObject} ELSE held
                /\ live' = IF provider = rootProvider THEN live \cup {RootObject} ELSE live
        /\ overwrote' = Undefined
        /\ UNCHANGED <<providers, fallbackProvider, rootRegistry, arrays, addLog, removals>>

\* the dispatcher registering the provider it forwarded to under the key's
\* namespace
DispatchCachesProvider(method, args) ==
    LET key == args[1]
        provider == getProvider(key)
    IN  /\ IF ~Truthy(provider)
           THEN /\ result' = Threw(method, args, NoProviderMatched)
                /\ invoked' = <<>>
                /\ UNCHANGED <<held, live, providers>>
           ELSE IF method \notin provider.methods
           THEN /\ result' = Threw(method, args, Unsupported(method))
                /\ invoked' = <<>>
                /\ UNCHANGED <<held, live, providers>>
           ELSE /\ result' = Returned(method, args, ProviderReturn(provider, method, args))
                /\ invoked' = <<Invocation(provider, method, args)>>
                /\ held' = IF provider = rootProvider THEN held \cup {RootObject} ELSE held
                /\ live' = IF provider = rootProvider THEN live \cup {RootObject} ELSE live
                /\ providers' = IF provider = rootProvider
                                THEN providers
                                ELSE [providers EXCEPT ![PropertyKey(key.namespace)] = provider]
        /\ overwrote' = Undefined
        /\ UNCHANGED <<fallbackProvider, rootRegistry, arrays, addLog, removals>>

\* the dispatcher turning to the fallback provider when the resolved
\* provider lacks the method
DispatchFallsBackOnMissingMethod(method, args) ==
    LET key == args[1]
        resolved == getProvider(key)
        provider == IF Truthy(resolved) /\ method \notin resolved.methods
                       /\ Truthy(fallbackProvider)
                    THEN fallbackProvider
                    ELSE resolved
    IN  /\ IF ~Truthy(provider)
           THEN /\ result' = Threw(method, args, NoProviderMatched)
                /\ invoked' = <<>>
                /\ UNCHANGED <<held, live>>
           ELSE IF method \notin provider.methods
           THEN /\ result' = Threw(method, args, Unsupported(method))
                /\ invoked' = <<>>
                /\ UNCHANGED <<held, live>>
           ELSE /\ result' = Returned(method, args, ProviderReturn(provider, method, args))
                /\ invoked' = <<Invocation(provider, method, args)>>
                /\ held' = IF provider = rootProvider THEN held \cup {RootObject} ELSE held
                /\ live' = IF provider = rootProvider THEN live \cup {RootObject} ELSE live
        /\ overwrote' = Undefined
        /\ UNCHANGED <<providers, fallbackProvider, rootRegistry, arrays, addLog, removals>>

\* the dispatcher calling the provider's method a second time
DispatchInvokesTwice(method, args) ==
    LET key == args[1]
        provider == getProvider(key)
    IN  /\ IF ~Truthy(provider)
           THEN /\ result' = Threw(method, args, NoProviderMatched)
                /\ invoked' = <<>>
                /\ UNCHANGED <<held, live>>
           ELSE IF method \notin provider.methods
           THEN /\ result' = Threw(method, args, Unsupported(method))
                /\ invoked' = <<>>
                /\ UNCHANGED <<held, live>>
           ELSE /\ result' = Returned(method, args, ProviderReturn(provider, method, args))
                /\ invoked' = <<Invocation(provider, method, args),
                                Invocation(provider, method, args)>>
                /\ held' = IF provider = rootProvider THEN held \cup {RootObject} ELSE held
                /\ live' = IF provider = rootProvider THEN live \cup {RootObject} ELSE live
        /\ overwrote' = Undefined
        /\ UNCHANGED <<providers, fallbackProvider, rootRegistry, arrays, addLog, removals>>

Dispatch(method, args) ==
    LET key == args[1]
        provider == getProvider(key)
    IN  /\ IF ~Truthy(provider)
           THEN /\ result' = Threw(method, args, NoProviderMatched)
                /\ invoked' = <<>>
                /\ UNCHANGED <<held, live>>
           ELSE IF method \notin provider.methods
           THEN /\ result' = Threw(method, args, Unsupported(method))
                /\ invoked' = <<>>
                /\ UNCHANGED <<held, live>>
           ELSE /\ result' = Returned(method, args, ProviderReturn(provider, method, args))
                /\ invoked' = <<Invocation(provider, method, args)>>
                /\ held' = IF provider = rootProvider THEN held \cup {RootObject} ELSE held
                /\ live' = IF provider = rootProvider THEN live \cup {RootObject} ELSE live
        /\ overwrote' = Undefined
        /\ UNCHANGED <<providers, fallbackProvider, rootRegistry, arrays, addLog, removals>>

save(args) == Dispatch("save", args)
delete(args) == Dispatch("delete", args)
get(args) == Dispatch("get", args)

\* ---------------------------------------------------------- root registry
\* addRoot with push where it should unshift
addRootPush(key) ==
    /\ Len(Registry) < MaxRoots
    /\ arrays' = [arrays EXCEPT ![rootRegistry] = Append(@, key)]
    /\ addLog' = IF removals THEN addLog ELSE Append(addLog, key)
    /\ result' = Returned("addRoot", <<key>>, Undefined)
    /\ invoked' = <<>>
    /\ overwrote' = Undefined
    /\ UNCHANGED <<providers, fallbackProvider, rootRegistry, held, removals, live>>

\* addRoot written as this.rootRegistry = [key].concat(this.rootRegistry):
\* a new array, and the old one is left as it was
addRootRebinds(key) ==
    /\ Len(Registry) < MaxRoots
    /\ Refs \ HeldRefs # {}
    /\ LET new == Min(Refs \ HeldRefs)
       IN  /\ rootRegistry' = new
           /\ arrays' = [r \in Refs |->
                            IF r = new THEN <<key>> \o Registry
                            ELSE IF r \in HeldRefs THEN arrays[r]
                            ELSE <<>>]
    /\ addLog' = IF removals THEN addLog ELSE Append(addLog, key)
    /\ result' = Returned("addRoot", <<key>>, Undefined)
    /\ invoked' = <<>>
    /\ overwrote' = Undefined
    /\ UNCHANGED <<providers, fallbackProvider, held, removals, live>>

\* this.rootRegistry.unshift(key): the array is changed in place
addRoot(key) ==
    /\ Len(Registry) < MaxRoots
    /\ arrays' = [arrays EXCEPT ![rootRegistry] = <<key>> \o @]
    /\ addLog' = IF removals THEN addLog ELSE Append(addLog, key)
    /\ result' = Returned("addRoot", <<key>>, Undefined)
    /\ invoked' = <<>>
    /\ overwrote' = Undefined
    /\ UNCHANGED <<providers, fallbackProvider, rootRegistry, held, removals, live>>

\* the callback of filter: keep k unless identifier and namespace both match
Keeps(key, k) ==
    \/ ~StrictEquals(k.identifier, key.identifier)
    \/ ~StrictEquals(k.namespace, key.namespace)

\* s without its first element that Keeps(key, _) rejects
WithoutFirstMatch(key, s) ==
    LET hits == {j \in 1..Len(s) : ~Keeps(key, s[j])}
    IN  IF hits = {} THEN s
        ELSE [j \in 1..(Len(s) - 1) |-> IF j < Min(hits) THEN s[j] ELSE s[j + 1]]

\* removeRoot that stops at the first entry it removes
removeRootFirstOnly(key) ==
    /\ Refs \ HeldRefs # {}
    /\ LET new == Min(Refs \ HeldRefs)
           kept == WithoutFirstMatch(key, Registry)
       IN  /\ rootRegistry' = new
           /\ arrays' = [r \in Refs |->
                            IF r = new THEN kept
                            ELSE IF r \in HeldRefs THEN arrays[r]
                            ELSE <<>>]
    /\ removals' = TRUE
    /\ addLog' = <<>>
    /\ live' = {}
    /\ result' = Returned("removeRoot", <<key>>, Undefined)
    /\ invoked' = <<>>
    /\ overwrote' = Undefined
    /\ UNCHANGED <<providers, fallbackProvider, held>>

\* this.rootRegistry = this.rootRegistry.filter(...): filter builds a new
\* array and the field is rebound to it; the old array is not changed, and
\* is collected unless a root object handed out earlier still refers to it
removeRoot(key) ==
    /\ Refs \ HeldRefs # {}
    /\ LET new == Min(Refs \ HeldRefs)
           kept == SelectSeq(Registry, LAMBDA k : Keeps(key, k))
       IN  /\ rootRegistry' = new
           /\ arrays' = [r \in Refs |->
                            IF r = new THEN kept
                            ELSE IF r \in HeldRefs THEN arrays[r]
                            ELSE <<>>]
    /\ removals' = TRUE
    /\ addLog' = <<>>
    /\ live' = {}
    /\ result' = Returned("removeRoot", <<key>>, Undefined)
    /\ invoked' = <<>>
    /\ overwrote' = Undefined
    /\ UNCHANGED <<providers, fallbackProvider, held>>

\* ------------------------------------------------- the root provider's get
\* this.rootProvider.get(...) called directly: the arguments are ignored
rootProviderGet(args) ==
    /\ result' = Returned("rootProvider.get", args, ProviderReturn(rootProvider, "get", args))
    /\ invoked' = <<>>
    /\ held' = held \cup {RootObject}
    /\ live' = live \cup {RootObject}
    /\ overwrote' = Undefined
    /\ UNCHANGED <<providers, fallbackProvider, rootRegistry, arrays, addLog, removals>>

\* ------------------------------------------------------------- promises
IsPendingPromise(v) == v.typeof = "object" /\ "promise" \in DOMAIN v /\ v.promise = "pending"

\* the provider resolves or rejects the promise that the last call returned;
\* no code of ObjectAPI runs
Settle(outcome) ==
    /\ result.outcome = "returned"
    /\ IsPendingPromise(result.value)
    /\ result' = [result EXCEPT !.value.promise = outcome]
    /\ UNCHANGED <<providers, fallbackProvider, rootRegistry, arrays, held, invoked,
                   overwrote, addLog, removals, live>>

\* a dispatch whose promise, if a provider returns one, the caller keeps
DispatchAndKeep(method, args) ==
    /\ Len(pending) < MaxPending
    /\ Dispatch(method, args)
    /\ pending' = IF result'.outcome = "returned" /\ IsPendingPromise(result'.value)
                  THEN Append(pending, result'.value)
                  ELSE pending

\* the provider resolves or rejects the j-th promise a caller keeps, which
\* the caller then drops; no code of ObjectAPI runs
SettlePending(j, outcome) ==
    /\ j \in 1..Len(pending)
    /\ pending' = [k \in 1..(Len(pending) - 1) |->
                      IF k < j THEN pending[k] ELSE pending[k + 1]]
    /\ result' = Returned("settle", <<pending[j]>>, [pending[j] EXCEPT !.promise = outcome])
    /\ invoked' = <<>>
    /\ overwrote' = Undefined
    /\ UNCHANGED <<providers, fallbackProvider, rootRegistry, arrays, held, addLog,
                   removals, live>>

\* ------------------------------------------------ mutation and observation
\* new MutableObject(domainObject)
MutableObject(domainObject) ==
    [typeof |-> "object", class |-> "MutableObject", object |-> domainObject]

\* what handle.set(path, value) and handle.on(path, callback) return
MutableObjectSet(handle, path, value) ==
    [typeof |-> "object", returnedBy |-> "set", on |-> handle, args |-> <<path, value>>]
MutableObjectOn(handle, path, callback) ==
    [typeof |-> "object", returnedBy |-> "on", on |-> handle, args |-> <<path, callback>>]

EngineCall(method, args) == [this |-> "MutableObject", method |-> method, args |-> args]

\* mutate resolving a provider for the object first, as the dispatcher does
mutateThroughProvider(domainObject, path, value) ==
    /\ IF ~Truthy(getProvider(domainObject))
       THEN /\ result' = Threw("mutate", <<domainObject, path, value>>, NoProviderMatched)
            /\ invoked' = <<>>
       ELSE /\ result' = Returned("mutate", <<domainObject, path, value>>,
                                  MutableObjectSet(MutableObject(domainObject), path, value))
            /\ invoked' = <<EngineCall("new", <<domainObject>>),
                            EngineCall("set", <<path, value>>)>>
    /\ overwrote' = Undefined
    /\ UNCHANGED <<providers, fallbackProvider, rootRegistry, arrays, held, addLog,
                   removals, live>>

mutate(domainObject, path, value) ==
    /\ result' = Returned("mutate", <<domainObject, path, value>>,
                          MutableObjectSet(MutableObject(domainObject), path, value))
    /\ invoked' = <<EngineCall("new", <<domainObject>>), EngineCall("set", <<path, value>>)>>
    /\ overwrote' = Undefined
    /\ UNCHANGED <<providers, fallbackProvider, rootRegistry, arrays, held, addLog,
                   removals, live>>

observe(domainObject, path, callback) ==
    /\ result' = Returned("observe", <<domainObject, path, callback>>,
                          MutableObjectOn(MutableObject(domainObject), path, callback))
    /\ invoked' = <<EngineCall("new", <<domainObject>>), EngineCall("on", <<path, callback>>)>>
    /\ overwrote' = Undefined
    /\ UNCHANGED <<providers, fallbackProvider, rootRegistry, arrays, held, addLog,
                   removals, live>>

\* ---------------------------------------------------------- specifications
\* registration and dispatch
NextDispatch ==
    /\ \/ \E ns \in Namespaces, p \in Providers : addProvider(ns, p)
       \/ \E p \in Providers : setFallbackProvider(p)
       \/ \E args \in DispatchArgs : save(args)
       \/ \E args \in DispatchArgs : delete(args)
       \/ \E args \in DispatchArgs : get(args)
    /\ UNCHANGED pending

SpecDispatch == Init /\ [][NextDispatch]_vars

\* the root registry and the root object
NextRoot ==
    /\ \/ \E key \in RootIdentifiers : addRoot(key)
       \/ \E key \in RootIdentifiers : removeRoot(key)
       \/ \E key \in RootKeys : get(<<key>>)
    /\ UNCHANGED pending

SpecRoot == Init /\ [][NextRoot]_vars

\* every operation of the access layer together, on few values
ApiProviders == {Provider("P1", {"get"}), Provider("P7", {"get", "save", "delete"})}
ApiArgs ==
    { <<Identifier("n", "a")>>,
      <<Identifier("n", "a"), Str("extra")>>,
      <<Obj(Str("n"), Undefined, Str("ROOT"))>>,
      <<DomainObject(Identifier("n", "a"))>> }
ApiRoots == {Identifier("n", "a")}
RootGetArgs == {<<>>, <<Identifier("n", "a")>>, <<Str("anything"), Str("extra")>>}
Paths == {Str("name")}
Values == {Str("v")}
Callbacks == {[typeof |-> "function", name |-> "callback"]}

NextApi ==
    /\ \/ \E ns \in Namespaces, p \in ApiProviders : addProvider(ns, p)
       \/ \E p \in ApiProviders : setFallbackProvider(p)
       \/ \E args \in ApiArgs : save(args)
       \/ \E args \in ApiArgs : delete(args)
       \/ \E args \in ApiArgs : get(args)
       \/ \E outcome \in {"resolved", "rejected"} : Settle(outcome)
       \/ \E key \in ApiRoots : addRoot(key)
       \/ \E key \in ApiRoots : removeRoot(key)
       \/ \E args \in RootGetArgs : rootProviderGet(args)
       \/ \E d \in DomainObjects, path \in Paths, v \in Values : mutate(d, path, v)
       \/ \E d \in DomainObjects, path \in Paths, c \in Callbacks : observe(d, path, c)
    /\ UNCHANGED pending

SpecApi == Init /\ [][NextApi]_vars

\* operations whose promises stay pending while registrations change
PendingProviders == {Provider("P6", {"save", "delete"}), Provider("P7", {"get", "save", "delete"})}
PendingFallbacks == {Provider("P2", {"save"})}
PendingMethods == {"save", "delete"}
PendingArgs == {<<Identifier("n", "a")>>, <<Identifier("other", "a")>>}

NextPending ==
    \/ /\ \/ \E p \in PendingProviders : addProvider("n", p)
          \/ \E p \in PendingFallbacks : setFallbackProvider(p)
          \/ \E key \in ApiRoots : addRoot(key)
          \/ \E key \in ApiRoots : removeRoot(key)
       /\ UNCHANGED pending
    \/ \E method \in PendingMethods, args \in PendingArgs : DispatchAndKeep(method, args)
    \/ \E j \in 1..MaxPending, outcome \in {"resolved", "rejected"} : SettlePending(j, outcome)

SpecPending == Init /\ [][NextPending]_vars

\* every call in any order; the two parts above share only the root
\* provider's get and are checked one at a time
Next == NextDispatch \/ NextRoot \/ NextApi \/ NextPending

Spec == Init /\ [][Next]_vars

\* -------------------------------------------------- provider resolution
IsRootKey(key) == StrictEquals(key.identifier, Str("ROOT"))

\* the dispatch keys that name namespace ns and are not the root sentinel
NonRootKeysIn(ns) ==
    {i \in DispatchKeys : i.namespace = Str(ns) /\ ~IsRootKey(i)}

\* the step is a call addProvider(ns, _): every call records itself in result
AddsProviderFor(ns) ==
    result'.op = "addProvider" /\ result'.args[1] = Str(ns)

\* C1: for a key that is not the root sentinel, getProvider returns the
\* provider most recently registered for the key's namespace: a call
\* addProvider(ns, p) makes getProvider return p for every such key of ns,
\* whatever was registered before and whatever the fallback is, and once ns
\* has a provider no other call (setFallbackProvider, addProvider for another
\* namespace, a dispatch) changes what getProvider returns for it.
C1_MostRecentNamespaceProvider ==
    [][\A ns \in Namespaces : \A i \in NonRootKeysIn(ns) :
          IF AddsProviderFor(ns)
          THEN getProvider(i)' = result'.args[2]
          ELSE Truthy(providers[ns]) => getProvider(i)' = getProvider(i)]_vars

\* a provider has just replaced another one under "n", while a different
\* fallback and a different provider under "other" are in place
C1_Witness ==
    /\ result.op = "addProvider"
    /\ result.args[1] = Str("n")
    /\ overwrote.typeof = "object"
    /\ overwrote # result.args[2]
    /\ Truthy(fallbackProvider)
    /\ fallbackProvider # result.args[2]
    /\ Truthy(providers["other"])
    /\ providers["other"] # result.args[2]
    /\ getProvider(Identifier("n", "a")) = result.args[2]

\* ------------------------------------------------------------- dispatch
\* C2: save(D) and delete(D) route on the identifier embedded in the domain
\* object D: when a provider that implements the method is registered for
\* D.identifier.namespace, the call invokes that provider's method with D.
C2_SaveDeleteRouteOnEmbeddedIdentifier ==
    \A D \in DomainObjects :
        LET P == providers[PropertyKey(D.identifier.namespace)]
        IN  (/\ result.op \in {"save", "delete"}
             /\ result.args = <<D>>
             /\ Truthy(P)
             /\ result.op \in P.methods)
                => invoked = <<Invocation(P, result.op, <<D>>)>>

\* the last call was get, save or delete with first argument i
Dispatched(i) == result.op \in Methods /\ result.args[1] = i

C4_UnsupportedMethodThrows ==
    result.op \in Methods =>
        LET P == getProvider(result.args[1])
        IN  Truthy(P) =>
                IF result.op \notin P.methods
                THEN /\ result = Threw(result.op, result.args, Unsupported(result.op))
                     /\ invoked = <<>>
                ELSE /\ result.outcome = "returned"
                     /\ \A m \in Methods : result.value # Unsupported(m)

\* save was refused by a provider that implements both get and delete
C4_Witness ==
    /\ result = Threw("save", <<Identifier("n", "a")>>, Unsupported("save"))
    /\ invoked = <<>>
    /\ providers["n"] = Provider("P5", {"get", "delete"})

\* C5: for a key whose identifier property is 'ROOT', getProvider returns the
\* root provider, whatever is registered under the key's namespace and
\* whatever the fallback is.
C5_RootKeyResolvesToRootProvider ==
    \A i \in RootKeys :
        /\ getProvider(i) = rootProvider
        /\ Dispatched(i) /\ result.outcome = "returned"
              => invoked = <<Invocation(rootProvider, "get", result.args)>>

\* get on the sentinel of namespace "n" reached the root provider although
\* "n" has a provider that implements get and a fallback is set
C5_Witness ==
    /\ Truthy(providers["n"])
    /\ "get" \in providers["n"].methods
    /\ Truthy(fallbackProvider)
    /\ result.op = "get"
    /\ result.args = <<Obj(Str("n"), Undefined, Str("ROOT"))>>
    /\ invoked = <<Invocation(rootProvider, "get", result.args)>>

SameIdentifier(x, k) == x.namespace = k.namespace /\ x.key = k.key

Reverse(s) == [j \in 1..Len(s) |-> s[Len(s) + 1 - j]]

\* C7: removeRoot(x) removes the entries structurally equal to x and no
\* others: the registry afterwards is the registry before without the
\* entries that have x's namespace and x's key, in the same order.
C7_RemoveRootKeepsOtherIdentifiers ==
    [][\A x \in RootIdentifiers :
          removeRoot(x)
              => Registry' = SelectSeq(Registry, LAMBDA k : ~SameIdentifier(x, k))]_vars

\* C8: as long as removeRoot has not been called, the registry is the
\* sequence of addRoot arguments in reverse call order, one entry per call.
C8_RegistryIsNewestFirst ==
    ~removals => /\ Registry = Reverse(addLog)
                 /\ Len(Registry) = Len(addLog)

\* addRoot(a); addRoot(b) has given [b, a]
C8_Witness ==
    /\ ~removals
    /\ result = Returned("addRoot", <<Identifier("n", "b")>>, Undefined)
    /\ addLog = <<Identifier("other", "a"), Identifier("n", "b")>>
    /\ Registry = <<Identifier("n", "b"), Identifier("other", "a")>>

\* C9: after removeRoot(x) no entry with x's namespace and key is left.
C9_RemoveRootRemovesEveryOccurrence ==
    result.op = "removeRoot" =>
        \A j \in 1..Len(Registry) : ~SameIdentifier(result.args[1], Registry[j])

\* removeRoot(x) has emptied a registry that held x twice: a root object
\* obtained just before the call still shows the two entries
C9_Witness ==
    /\ result.op = "removeRoot"
    /\ Registry = <<>>
    /\ \E o \in held : arrays[o.composition] = <<result.args[1], result.args[1]>>

ServedByRootProvider ==
    \/ result.op = "rootProvider.get"
    \/ /\ result.op = "get"
       /\ invoked = <<Invocation(rootProvider, "get", result.args)>>

\* C11: the root provider's get, whatever it is called with and whatever
\* providers and fallback are registered, returns a resolved promise (it
\* neither throws nor rejects) of an object named "The root object" of type
\* "root" whose composition is the root registry as it is at the call.
C11_RootProviderGetResolvesRootObject ==
    ServedByRootProvider =>
        /\ result.outcome = "returned"
        /\ result.value.promise = "resolved"
        /\ result.value.value.name = "The root object"
        /\ result.value.value.type = "root"
        /\ result.value.value.composition = rootRegistry
        /\ arrays[result.value.value.composition] = Registry

\* the root provider's get called with two arguments that are not keys,
\* with a namespace provider and a fallback registered, after removeRoot has
\* replaced the registry array and addRoot has filled the new one
C11_Witness ==
    /\ result.op = "rootProvider.get"
    /\ result.args = <<Str("anything"), Str("extra")>>
    /\ Truthy(providers["n"])
    /\ Truthy(fallbackProvider)
    /\ rootRegistry # 1
    /\ Len(Registry) > 0
    /\ result.value.value.composition = rootRegistry

\* the promise states a returned handle can be in
PromiseStates == {"pending", "resolved", "rejected"}

\* C12: when the key of a get, save or delete resolves to a provider that
\* implements the method, the call invokes that method of that provider
\* exactly once with all the arguments it was given and returns what the
\* provider returned; nothing else is invoked, also after the returned
\* promise has been resolved or rejected.
C12_ForwardsOnceToResolvedProvider ==
    LET op == result.op
        args == result.args
        P == getProvider(args[1])
    IN  (op \in Methods /\ Truthy(P) /\ op \in P.methods) =>
            /\ result.outcome = "returned"
            /\ invoked = <<Invocation(P, op, args)>>
            /\ IF P = rootProvider
               THEN result.value = ProviderReturn(P, op, args)
               ELSE \E o \in PromiseStates :
                        result.value = [ProviderReturn(P, op, args) EXCEPT !.promise = o]

\* a save with two arguments was forwarded to the namespace provider while
\* another provider was the fallback, and the returned promise has rejected
C12_Witness ==
    /\ result.op = "save"
    /\ result.args = <<Identifier("n", "a"), Str("extra")>>
    /\ result.outcome = "returned"
    /\ result.value.promise = "rejected"
    /\ Truthy(providers["n"]) /\ Truthy(fallbackProvider)
    /\ fallbackProvider # providers["n"]
    /\ invoked = <<Invocation(providers["n"], "save", result.args)>>

\* C17: the fallback provider decides nothing once the key's namespace has a
\* provider: when that provider lacks the method and the fallback has it, the
\* call throws "Provider does not support [method]." and the fallback's
\* method is not invoked.
C17_NoFallbackForMissingMethod ==
    \A ns \in Namespaces : \A i \in NonRootKeysIn(ns) :
        ( /\ Dispatched(i)
          /\ Truthy(providers[ns])
          /\ result.op \notin providers[ns].methods
          /\ Truthy(fallbackProvider)
          /\ result.op \in fallbackProvider.methods ) =>
            /\ result = Threw(result.op, result.args, Unsupported(result.op))
            /\ invoked = <<>>

\* a delete in namespace "n", whose provider has only get while the fallback
\* has delete, has thrown
C17_Witness ==
    /\ result.op = "delete"
    /\ result.args = <<Identifier("n", "a")>>
    /\ providers["n"] = Provider("P1", {"get"})
    /\ Truthy(fallbackProvider) /\ "delete" \in fallbackProvider.methods
    /\ result.outcome = "threw"
    /\ invoked = <<>>

\* C18: save and delete with a first argument whose identifier is "ROOT"
\* throw "Provider does not support [method]." and invoke no provider,
\* whatever namespace providers and fallback are registered; get with such an
\* argument is served by the root provider.
C18_RootKeySaveDeleteUnsupported ==
    \A i \in RootKeys :
        Dispatched(i) =>
            IF result.op = "get"
            THEN /\ result.outcome = "returned"
                 /\ invoked = <<Invocation(rootProvider, "get", result.args)>>
            ELSE /\ result = Threw(result.op, result.args, Unsupported(result.op))
                 /\ invoked = <<>>

\* a save with a ROOT key of namespace "n" has thrown although the provider
\* of "n" and the fallback both implement save
C18_Witness ==
    /\ result.op = "save"
    /\ result.args = <<Obj(Str("n"), Undefined, Str("ROOT"))>>
    /\ Truthy(providers["n"]) /\ "save" \in providers["n"].methods
    /\ Truthy(fallbackProvider) /\ "save" \in fallbackProvider.methods
    /\ result = Threw("save", result.args, Unsupported("save"))
    /\ invoked = <<>>

\* C14: addProvider(ns, p) sets the provider of ns to p and changes nothing
\* else: the providers of all other namespaces, the fallback provider, the
\* root provider and the root registry are as before, and no provider method
\* is invoked.
C14_AddProviderChangesOneMapping ==
    [][\A ns \in Namespaces :
          AddsProviderFor(ns) =>
              /\ providers'[ns] = result'.args[2]
              /\ \A k \in PropertyNames \ {ns} : providers'[k] = providers[k]
              /\ fallbackProvider' = fallbackProvider
              /\ rootRegistry' = rootRegistry
              /\ arrays' = arrays
              /\ \A i \in RootKeys : getProvider(i)' = rootProvider
              /\ invoked' = <<>>]_vars

\* addProvider has replaced the provider of "n" while "other" has a
\* different provider, a fallback is set and the registry has a root
C14_Witness ==
    /\ result.op = "addProvider"
    /\ result.args[1] = Str("n")
    /\ providers["n"] = result.args[2]
    /\ Truthy(overwrote) /\ overwrote # providers["n"]
    /\ Truthy(providers["other"]) /\ providers["other"] # providers["n"]
    /\ Truthy(fallbackProvider) /\ fallbackProvider # providers["n"]
    /\ Len(Registry) > 0

\* C16: get, save and delete leave the namespace-to-provider mapping, the
\* fallback provider and the root registry as they were, when they forward
\* to a provider and when they throw.
C16_DispatchLeavesRegistriesAlone ==
    [][result'.op \in Methods =>
          /\ providers' = providers
          /\ fallbackProvider' = fallbackProvider
          /\ rootRegistry' = rootRegistry
          /\ arrays' = arrays]_vars

\* a get in a namespace without a provider has been forwarded to the
\* fallback, and the namespace still has no provider
C16_Witness ==
    /\ result.op = "get"
    /\ result.args = <<Identifier("n", "a")>>
    /\ ~Truthy(providers["n"])
    /\ Truthy(providers["other"])
    /\ Truthy(fallbackProvider)
    /\ invoked = <<Invocation(fallbackProvider, "get", result.args)>>
    /\ Len(Registry) > 0

\* C15: mutate(domainObject, path, value) and observe(domainObject, path,
\* callback) construct one Mutation Engine handle for domainObject, call set
\* (for observe: on) on it once with the other two arguments and return what
\* that call returns; they invoke no provider method and leave the providers,
\* the fallback provider and the root registry unchanged, so they return also
\* when the object's key resolves to no provider.
C15_MutateObserveDelegate ==
    [][result'.op \in {"mutate", "observe"} =>
          LET d == result'.args[1]
              path == result'.args[2]
              x == result'.args[3]
              handle == MutableObject(d)
              method == IF result'.op = "mutate" THEN "set" ELSE "on"
          IN  /\ result'.outcome = "returned"
              /\ result'.value = IF result'.op = "mutate"
                                 THEN MutableObjectSet(handle, path, x)
                                 ELSE MutableObjectOn(handle, path, x)
              /\ invoked' = <<EngineCall("new", <<d>>), EngineCall(method, <<path, x>>)>>
              /\ providers' = providers
              /\ fallbackProvider' = fallbackProvider
              /\ rootRegistry' = rootRegistry
              /\ arrays' = arrays]_vars

\* mutate has returned the engine's result for an object whose key resolves
\* to no provider, with a root registered
C15_Witness ==
    /\ result.op = "mutate"
    /\ ~Truthy(getProvider(result.args[1]))
    /\ result.outcome = "returned"
    /\ result.value.returnedBy = "set"
    /\ Len(invoked) = 2
    /\ Len(Registry) > 0

\* s without its j-th element
RemoveAt(s, j) == [k \in 1..(Len(s) - 1) |-> IF k < j THEN s[k] ELSE s[k + 1]]

\* C13: whatever is called while a promise returned by provider P is
\* pending (addProvider, also one replacing P, setFallbackProvider, addRoot,
\* removeRoot, further save and delete calls on the same key), the promise
\* stays as P returned it and no provider method is invoked for it again;
\* it leaves the pending ones only by being settled, as P's promise. Every
\* get, save or delete is routed by the providers and fallback registered
\* when it is called.
C13_PendingStaysWithItsProvider ==
    [][/\ result'.op # "settle" =>
              /\ Len(pending') >= Len(pending)
              /\ \A j \in 1..Len(pending) : pending'[j] = pending[j]
       /\ result'.op = "settle" =>
              /\ \E j \in 1..Len(pending) :
                     /\ pending' = RemoveAt(pending, j)
                     /\ result'.args = <<pending[j]>>
              /\ result'.value.by = result'.args[1].by
              /\ result'.value.method = result'.args[1].method
              /\ result'.value.args = result'.args[1].args
              /\ invoked' = <<>>
       /\ result'.op \notin Methods => invoked' = <<>>
       /\ result'.op \in Methods =>
              LET P == getProvider(result'.args[1])
              IN  IF Truthy(P) /\ result'.op \in P.methods
                  THEN /\ invoked' = <<Invocation(P, result'.op, result'.args)>>
                       /\ pending' = Append(pending, ProviderReturn(P, result'.op, result'.args))
                  ELSE /\ invoked' = <<>>
                       /\ pending' = pending]_vars

\* the provider of "n" was replaced while a delete forwarded to the old
\* provider was pending; a save on the same key has gone to the new provider
\* and the delete is still pending with the old one
C13_Witness ==
    /\ Len(pending) = 2
    /\ pending[1].by = "P7" /\ pending[1].method = "delete"
    /\ pending[1].args = <<Identifier("n", "a")>>
    /\ providers["n"] = Provider("P6", {"save", "delete"})
    /\ result.op = "save" /\ result.args = <<Identifier("n", "a")>>
    /\ invoked = <<Invocation(providers["n"], "save", result.args)>>
    /\ pending[2] = result.value
    /\ pending[2].by = "P6"

====
